---- MODULE Spec2Model ----
(***************************************************************************)
(* Model of the trade aggregation engine, src/data/sircalcalot.py: the     *)
(* RDF graph as a set of triples, entity and period discovery, the         *)
(* per-country-per-year aggregator, the aggregate writer and the thread    *)
(* pool orchestration of main().                                           *)
(***************************************************************************)
EXTENDS Integers, Sequences, FiniteSets, TLC

\* ------------------------------------------------------------------ bounds
\* largest period (year) carried by a measurement of the input file
MaxYear == 2
\* largest trade value carried by a measurement of the input file
MaxValue == 2
\* units 1..MaxFaulty may hit an unexpected exception
MaxFaulty == 2
\* ThreadPoolExecutor(max_workers=4)
max_workers == 4

\* ------------------------------------------------------------------- terms
\* RDF terms are tagged tuples: the tag fixes the kind of the payload.
U(name) == <<"uri", name>>
Rec(i) == <<"rec", i>>
IntLit(n) == <<"int", n>>
DecLit(n) == <<"dec", n>>
StrLit(s) == <<"str", s>>
\* a decimal literal built from a float that is not a number
DecNaN == <<"nan", 0>>

\* predicates of the vocabulary (base namespace, rdf:type)
RDFtype == "rdf:type"
isoCode == "isoCode"
hasTradeMeasurement == "hasTradeMeasurement"
hasTradeAggregate == "hasTradeAggregate"
yearP == "year"
flowType == "flowType"
tradeValue == "tradeValue"

\* classes
Country == U("Country")
GoodsTrade == U("GoodsTrade")
ServicesTrade == U("ServicesTrade")
TradeAggregate == U("TradeAggregate")
NamedIndividual == U("NamedIndividual")
WorldAggregate == U("WorldAggregate")
EconomicMeasurement == U("EconomicMeasurement")

\* ------------------------------------------------------------------ floats
\* A Python float is a number or nan.
FNum(n) == <<"num", n>>
FNaN == <<"nan", 0>>
ValueError == <<"ValueError", 0>>

FAdd(a, b) == IF a[1] = "nan" \/ b[1] = "nan" THEN FNaN ELSE FNum(a[2] + b[2])
FSub(a, b) == IF a[1] = "nan" \/ b[1] = "nan" THEN FNaN ELSE FNum(a[2] - b[2])
\* value > 0 and value <= 0 are both False for nan
FGt0(a) == a[1] = "num" /\ a[2] > 0
FLe0(a) == a[1] = "num" /\ a[2] <= 0

\* the strings that int() and float() read as the numbers 1, 2, 3, 4
DigitStrings == <<"1", "2", "3", "4">>
IsDigitString(x) == \E i \in 1..Len(DigitStrings) : DigitStrings[i] = x
DigitValue(x) == CHOOSE i \in 1..Len(DigitStrings) : DigitStrings[i] = x

\* float(values[0]): the lexical form of the literal is parsed
ToFloat(t) ==
    IF t[1] \in {"dec", "int"} THEN FNum(t[2])
    ELSE IF t[1] = "str" /\ t[2] = "nan" THEN FNaN
    ELSE IF t[1] = "str" /\ IsDigitString(t[2]) THEN FNum(DigitValue(t[2]))
    ELSE ValueError

\* Literal(x, datatype=XSD.decimal)
ToDecimal(f) == IF f[1] = "num" THEN DecLit(f[2]) ELSE DecNaN

\* int(year): the lexical form of the literal is parsed
ToInt(t) ==
    IF t[1] = "int" THEN FNum(t[2])
    ELSE IF t[1] = "str" /\ IsDigitString(t[2]) THEN FNum(DigitValue(t[2]))
    ELSE ValueError

\* ------------------------------------------------------------------- store
\* list(g.objects(s, p)): the objects of the triples (s, p, *) of graph G
Objects(G, s, p) == {t[3] : t \in {x \in G : x[1] = s /\ x[2] = p}}
\* g.triples((None, RDF.type, c)): the subjects typed c
SubjectsOfType(G, c) == {t[1] : t \in {x \in G : x[2] = RDFtype /\ x[3] = c}}

\* The store returns the objects of (s, p) in an order of its own. TermKey ranks
\* the terms; the store lists them by ascending or (reversed) by descending rank.
NameOrder ==
    <<"GoodsTrade", "ServicesTrade", "EconomicMeasurement", "NamedIndividual",
      "Country", "WorldAggregate", "TradeAggregate",
      "A", "B", "C", "D", "E", "F", "Z",
      "1", "2", "3", "4", "Export", "Import", "Re-export", "n/a", "nan">>
NameRank(n) == CHOOSE i \in 1..Len(NameOrder) : NameOrder[i] = n
TermKey(t) ==
    IF t[1] = "uri" THEN 1000 + NameRank(t[2])
    ELSE IF t[1] = "str" THEN 2000 + NameRank(t[2])
    ELSE IF t[1] = "rec" THEN 3000 + t[2]
    ELSE IF t[1] = "int" THEN 4000 + t[2]
    ELSE IF t[1] = "dec" THEN 5000 + t[2]
    ELSE IF t[1] = "agg" THEN 6000 + 10 * NameRank(t[2]) + t[3]
    ELSE 7000
\* xs[0] of xs = list(g.objects(s, p)), for a non-empty set S of objects
First(S, rev) ==
    CHOOSE x \in S : \A y \in S :
        IF rev THEN TermKey(y) <= TermKey(x) ELSE TermKey(x) <= TermKey(y)

\* sorted(list(S)) of a set of integers
RECURSIVE SortedSeq(_)
SortedSeq(S) ==
    IF S = {} THEN <<>>
    ELSE LET m == CHOOSE x \in S : \A y \in S : x <= y
         IN <<m>> \o SortedSeq(S \ {m})

\* --------------------------------------------------------------- discovery
\* CountryPairs without the test of the type: every subject that has a code
CountryPairs_AnyType(G) ==
    {<<t[1], t[3]>> : t \in {x \in G : x[2] = isoCode}}

\* get_countries: one (subject, code) pair per isoCode triple of each subject
\* typed Country, sorted by code; the sort is stable, so pairs with equal codes
\* stay in the store's iteration order.
CountryPairs(G) ==
    {<<t[1], t[3]>> : t \in {x \in G : x[2] = isoCode /\ x[1] \in SubjectsOfType(G, Country)}}
PairKey(pr, rev) ==
    10000 * NameRank(pr[2][2]) + (IF rev THEN 9999 - TermKey(pr[1]) ELSE TermKey(pr[1]))
RECURSIVE SortPairs(_, _)
SortPairs(S, rev) ==
    IF S = {} THEN <<>>
    ELSE LET m == CHOOSE x \in S : \A y \in S : PairKey(x, rev) <= PairKey(y, rev)
         IN <<m>> \o SortPairs(S \ {m}, rev)
\* get_countries without the sort: the pairs in the store's iteration order
get_countries_Unsorted(G, rev) ==
    LET S == CountryPairs(G)
        key(pr) == IF rev THEN 9999 - TermKey(pr[1]) ELSE TermKey(pr[1])
        Seqs == {q \in [1..Cardinality(S) -> S] :
                    \A i, j \in 1..Cardinality(S) : i < j => q[i] # q[j] /\ key(q[i]) <= key(q[j])}
    IN CHOOSE q \in Seqs : TRUE
get_countries(G, rev) == SortPairs(CountryPairs(G), rev)

\* get_relevant_years where a year that int() rejects ends the discovery with
\* nothing found
get_relevant_years_StopAtBad(G) ==
    LET recs == SubjectsOfType(G, GoodsTrade) \cup SubjectsOfType(G, ServicesTrade)
        lits == UNION {Objects(G, s, yearP) : s \in recs}
    IN IF \E l \in lits : ToInt(l) = ValueError THEN <<>>
       ELSE SortedSeq({ToInt(y)[2] : y \in lits})

\* get_relevant_years: the int() of every year of every subject typed GoodsTrade
\* or ServicesTrade; a year that int() rejects is skipped
get_relevant_years(G) ==
    LET recs == SubjectsOfType(G, GoodsTrade) \cup SubjectsOfType(G, ServicesTrade)
        lits == UNION {Objects(G, s, yearP) : s \in recs}
    IN SortedSeq({ToInt(y)[2] : y \in {l \in lits : ToInt(l) # ValueError}})

\* -------------------------------------------------------------- aggregator
ZeroTotals ==
    [goods_export |-> FNum(0), goods_import |-> FNum(0),
     services_export |-> FNum(0), services_import |-> FNum(0)]
BucketKeys == {"goods_export", "goods_import", "services_export", "services_import"}
Skip == [kind |-> "skip", key |-> "", value |-> FNum(0)]

\* Contribution with the two directions exchanged
Contribution_FlippedDirection(G, rev, m, year) ==
    LET types == Objects(G, m, RDFtype)
        measurement_years == Objects(G, m, yearP)
        flow_types == Objects(G, m, flowType)
        values == Objects(G, m, tradeValue)
    IN IF types = {} THEN Skip
       ELSE IF First(types, rev) \notin {GoodsTrade, ServicesTrade} THEN Skip
       ELSE IF measurement_years = {} \/ First(measurement_years, rev) # IntLit(year) THEN Skip
       ELSE IF flow_types = {} \/ values = {} THEN Skip
       ELSE IF ToFloat(First(values, rev)) = ValueError THEN Skip
       ELSE IF FLe0(ToFloat(First(values, rev))) THEN Skip
       ELSE [kind |-> "add",
             key |-> (IF First(types, rev) = GoodsTrade THEN "goods" ELSE "services")
                     \o "_"
                     \o (IF First(flow_types, rev) = StrLit("Export") THEN "import" ELSE "export"),
             value |-> ToFloat(First(values, rev))]

\* Contribution without the except clause around float(values[0])
Contribution_NoExcept(G, rev, m, year) ==
    LET types == Objects(G, m, RDFtype)
        measurement_years == Objects(G, m, yearP)
        flow_types == Objects(G, m, flowType)
        values == Objects(G, m, tradeValue)
    IN IF types = {} THEN Skip
       ELSE IF First(types, rev) \notin {GoodsTrade, ServicesTrade} THEN Skip
       ELSE IF measurement_years = {} \/ First(measurement_years, rev) # IntLit(year) THEN Skip
       ELSE IF flow_types = {} \/ values = {} THEN Skip
       ELSE IF ToFloat(First(values, rev)) = ValueError
            THEN [kind |-> "raise", key |-> "", value |-> FNum(0)]
       ELSE IF FLe0(ToFloat(First(values, rev))) THEN Skip
       ELSE [kind |-> "add",
             key |-> (IF First(types, rev) = GoodsTrade THEN "goods" ELSE "services")
                     \o "_"
                     \o (IF First(flow_types, rev) = StrLit("Export") THEN "export" ELSE "import"),
             value |-> ToFloat(First(values, rev))]

\* One pass of the loop body of calculate_year_totals for measurement m: the
\* bucket key and value the record adds, or skip (continue).
Contribution(G, rev, m, year) ==
    LET types == Objects(G, m, RDFtype)
        measurement_years == Objects(G, m, yearP)
        flow_types == Objects(G, m, flowType)
        values == Objects(G, m, tradeValue)
    IN IF types = {} THEN Skip
       ELSE IF First(types, rev) \notin {GoodsTrade, ServicesTrade} THEN Skip
       ELSE IF measurement_years = {} \/ First(measurement_years, rev) # IntLit(year) THEN Skip
       ELSE IF flow_types = {} \/ values = {} THEN Skip
       ELSE IF ToFloat(First(values, rev)) = ValueError THEN Skip
       ELSE IF FLe0(ToFloat(First(values, rev))) THEN Skip
       ELSE [kind |-> "add",
             key |-> (IF First(types, rev) = GoodsTrade THEN "goods" ELSE "services")
                     \o "_"
                     \o (IF First(flow_types, rev) = StrLit("Export") THEN "export" ELSE "import"),
             value |-> ToFloat(First(values, rev))]

RECURSIVE SumInto(_, _, _, _, _)
SumInto(totals, G, rev, ms, year) ==
    IF ms = {} THEN totals
    ELSE LET m == CHOOSE x \in ms : TRUE
             c == Contribution(G, rev, m, year)
             t2 == IF c.kind = "add"
                   THEN [totals EXCEPT ![c.key] = FAdd(@, c.value)]
                   ELSE totals
         IN SumInto(t2, G, rev, ms \ {m}, year)

None == [kind |-> "None", totals |-> ZeroTotals]
Raised == [kind |-> "raise", totals |-> ZeroTotals]

\* calculate_year_totals without the final any(value > 0) test
calculate_year_totals_NoSparsity(G, rev, country, year) ==
    LET ms == Objects(G, country, hasTradeMeasurement)
        totals == SumInto(ZeroTotals, G, rev, ms, year)
    IN IF \E m \in ms : Contribution(G, rev, m, year).kind = "raise" THEN Raised
       ELSE [kind |-> "totals", totals |-> totals]

\* calculate_year_totals(g, base, country_uri, year): the totals, None, or an
\* exception that a pass of the loop body let escape
calculate_year_totals(G, rev, country, year) ==
    LET ms == Objects(G, country, hasTradeMeasurement)
        totals == SumInto(ZeroTotals, G, rev, ms, year)
    IN IF \E m \in ms : Contribution(G, rev, m, year).kind = "raise" THEN Raised
       ELSE IF \E k \in BucketKeys : FGt0(totals[k])
       THEN [kind |-> "totals", totals |-> totals]
       ELSE None

\* ------------------------------------------------------------------ writer
\* AggregateUri without the period
AggregateUri_NoYear(country, year) == <<"agg", country[2], 0>>

\* URIRef(f"{country_uri}_trade_aggregate_{year}")
AggregateUri(country, year) == <<"agg", country[2], year>>

\* Statements with the total balance taken as imports minus exports
Statements_BalanceSwapped(country, year, totals) ==
    LET aggregate_uri == AggregateUri(country, year)
        total_export == FAdd(totals.goods_export, totals.services_export)
        total_import == FAdd(totals.goods_import, totals.services_import)
    IN << <<aggregate_uri, RDFtype, TradeAggregate>>,
          <<aggregate_uri, yearP, IntLit(year)>>,
          <<country, hasTradeAggregate, aggregate_uri>>,
          <<aggregate_uri, "totalExportValue", ToDecimal(total_export)>>,
          <<aggregate_uri, "goodsExportValue", ToDecimal(totals.goods_export)>>,
          <<aggregate_uri, "servicesExportValue", ToDecimal(totals.services_export)>>,
          <<aggregate_uri, "totalImportValue", ToDecimal(total_import)>>,
          <<aggregate_uri, "goodsImportValue", ToDecimal(totals.goods_import)>>,
          <<aggregate_uri, "servicesImportValue", ToDecimal(totals.services_import)>>,
          <<aggregate_uri, "totalTradeBalance", ToDecimal(FSub(total_import, total_export))>>,
          <<aggregate_uri, "goodsTradeBalance",
            ToDecimal(FSub(totals.goods_export, totals.goods_import))>>,
          <<aggregate_uri, "servicesTradeBalance",
            ToDecimal(FSub(totals.services_export, totals.services_import))>> >>

\* the statements list of add_trade_aggregate, in the order they are added
Statements(country, year, totals) ==
    LET aggregate_uri == AggregateUri(country, year)
        total_export == FAdd(totals.goods_export, totals.services_export)
        total_import == FAdd(totals.goods_import, totals.services_import)
    IN << <<aggregate_uri, RDFtype, TradeAggregate>>,
          <<aggregate_uri, yearP, IntLit(year)>>,
          <<country, hasTradeAggregate, aggregate_uri>>,
          <<aggregate_uri, "totalExportValue", ToDecimal(total_export)>>,
          <<aggregate_uri, "goodsExportValue", ToDecimal(totals.goods_export)>>,
          <<aggregate_uri, "servicesExportValue", ToDecimal(totals.services_export)>>,
          <<aggregate_uri, "totalImportValue", ToDecimal(total_import)>>,
          <<aggregate_uri, "goodsImportValue", ToDecimal(totals.goods_import)>>,
          <<aggregate_uri, "servicesImportValue", ToDecimal(totals.services_import)>>,
          <<aggregate_uri, "totalTradeBalance", ToDecimal(FSub(total_export, total_import))>>,
          <<aggregate_uri, "goodsTradeBalance",
            ToDecimal(FSub(totals.goods_export, totals.goods_import))>>,
          <<aggregate_uri, "servicesTradeBalance",
            ToDecimal(FSub(totals.services_export, totals.services_import))>> >>
NumStatements == Len(Statements(U("A"), 1, ZeroTotals))

Range(f) == {f[i] : i \in DOMAIN f}

\* process_country run alone and without a fault: the graph after its loop over
\* years[i..] has run on graph G
RECURSIVE ProcessCountryFrom(_, _, _, _, _)
ProcessCountryFrom(G, rev, country, years, i) ==
    IF i > Len(years) THEN G
    ELSE LET r == calculate_year_totals(G, rev, country, years[i])
             G2 == IF r.kind = "totals"
                   THEN G \cup Range(Statements(country, years[i], r.totals))
                   ELSE G
         IN ProcessCountryFrom(G2, rev, country, years, i + 1)

\* the units of the list cs[k..] run one after the other (a pool of one worker)
RECURSIVE RunCountriesFrom(_, _, _, _, _)
RunCountriesFrom(G, rev, cs, years, k) ==
    IF k > Len(cs) THEN G
    ELSE RunCountriesFrom(ProcessCountryFrom(G, rev, cs[k][1], years, 1),
                          rev, cs, years, k + 1)

\* the graph main() holds after a sequential, fault-free run on the loaded graph G
SequentialRun(G, rev) ==
    RunCountriesFrom(G, rev, get_countries(G, rev), get_relevant_years(G), 1)

\* ------------------------------------------------------------ input files
\* The graph file main() loads is any set of triples; the model draws it from the
\* triples ingestion (src/data/main.py) writes and from malformed variants.
EntityNames == <<"A", "B", "C", "D", "E", "F">>
Export == StrLit("Export")
Import == StrLit("Import")

\* the triples that declare entity e
EntityTriples(e, kind) ==
    CASE kind = "country" ->
            {<<U(e), RDFtype, NamedIndividual>>, <<U(e), RDFtype, Country>>,
             <<U(e), isoCode, StrLit(e)>>}
      [] kind = "twocodes" ->
            {<<U(e), RDFtype, NamedIndividual>>, <<U(e), RDFtype, Country>>,
             <<U(e), isoCode, StrLit(e)>>, <<U(e), isoCode, StrLit("Z")>>}
      [] kind = "nocode" ->
            {<<U(e), RDFtype, NamedIndividual>>, <<U(e), RDFtype, Country>>}
      [] kind = "world" ->
            {<<U(e), RDFtype, NamedIndividual>>, <<U(e), RDFtype, WorldAggregate>>,
             <<U(e), isoCode, StrLit(e)>>}
      [] OTHER -> {}

\* the triples of measurement record i linked from entity owner
RecordTriples(i, owner, shape) ==
    {<<U(owner), hasTradeMeasurement, Rec(i)>>}
        \cup {<<Rec(i), RDFtype, t>> : t \in shape.types}
        \cup {<<Rec(i), yearP, y>> : y \in shape.years}
        \cup {<<Rec(i), flowType, f>> : f \in shape.flows}
        \cup {<<Rec(i), tradeValue, v>> : v \in shape.values}

Shape(ts, ys, fs, vs) == [types |-> ts, years |-> ys, flows |-> fs, values |-> vs]

\* records as process_trade_measurement writes them (two types), single-typed
\* ones, and one with a value of zero
RunShapes ==
    {Shape({NamedIndividual, GoodsTrade}, {IntLit(1)}, {Export}, {DecLit(1)}),
     Shape({ServicesTrade}, {IntLit(MaxYear)}, {Import}, {DecLit(MaxValue)}),
     Shape({ServicesTrade}, {IntLit(1)}, {Export}, {DecLit(0)})}

\* the input files of the orchestrated runs: two declared entities, two records
RunInputs ==
    {EntityTriples("A", "country") \cup EntityTriples("B", "country")
        \cup RecordTriples(1, "A", s1) \cup RecordTriples(2, o2, s2) :
        o2 \in {"A", "B"}, s1 \in RunShapes, s2 \in RunShapes}
    \cup
    {EntityTriples("A", "twocodes") \cup EntityTriples("B", kb)
        \cup RecordTriples(1, "A", s1) \cup RecordTriples(2, "B", s1) :
        kb \in {"world", "nocode"}, s1 \in RunShapes}

\* Malformed and odd records: every combination of the fields below. A field
\* with two objects is listed by the store in either order.
WideTypes ==
    {{}, {GoodsTrade}, {ServicesTrade}, {EconomicMeasurement},
     {NamedIndividual, GoodsTrade}, {NamedIndividual, ServicesTrade}}
WideYears ==
    {{}, {IntLit(1)}, {IntLit(MaxYear)}, {StrLit("n/a")}, {StrLit("1")},
     {IntLit(1), IntLit(MaxYear)}}
WideFlows == {{}, {Export}, {Import}, {StrLit("Re-export")}}
WideValues ==
    {{}, {DecLit(0)}, {DecLit(-1)}, {DecLit(1)}, {DecLit(MaxValue)},
     {StrLit("n/a")}, {StrLit("nan")}, {DecLit(-1), DecLit(1)}}
WideShapes ==
    {Shape(ts, ys, fs, vs) : ts \in WideTypes, ys \in WideYears,
                             fs \in WideFlows, vs \in WideValues}
\* well-formed single-typed records
GoodShapes ==
    {Shape({GoodsTrade}, {IntLit(1)}, {Export}, {DecLit(1)}),
     Shape({ServicesTrade}, {IntLit(1)}, {Import}, {DecLit(MaxValue)}),
     Shape({GoodsTrade}, {IntLit(MaxYear)}, {Import}, {DecLit(1)}),
     Shape({ServicesTrade}, {IntLit(1)}, {Export}, {DecLit(0)})}

\* the input files of the aggregator checks: one country, one record of any
\* shape beside one well-formed record
WideInputs ==
    {EntityTriples("A", "country")
        \cup RecordTriples(1, "A", s1) \cup RecordTriples(2, "A", s2) :
        s1 \in WideShapes, s2 \in GoodShapes}

\* The example run: entity A has three records for the period 2020 (goods
\* exported for 100, services imported for 30, services exported with a value
\* that is not a number); beside them the file may hold a record of another
\* period or of another entity.
ExampleRecords ==
    RecordTriples(1, "A", Shape({GoodsTrade}, {IntLit(2020)}, {Export}, {DecLit(100)}))
    \cup RecordTriples(2, "A", Shape({ServicesTrade}, {IntLit(2020)}, {Import}, {DecLit(30)}))
    \cup RecordTriples(3, "A", Shape({ServicesTrade}, {IntLit(2020)}, {Export}, {StrLit("n/a")}))
ExampleInputs ==
    {EntityTriples("A", "country") \cup ExampleRecords}
    \cup
    {EntityTriples("A", "country") \cup ExampleRecords \cup RecordTriples(4, "A", s) :
        s \in GoodShapes}
    \cup
    {EntityTriples("A", "country") \cup ExampleRecords
        \cup EntityTriples("B", "country") \cup RecordTriples(4, "B", s) :
        s \in GoodShapes
              \cup {Shape({ServicesTrade}, {IntLit(2020)}, {Export}, {DecLit(1)})}}

\* a Country as add_country_data declares it, with the code given
CodedCountry(e, code) ==
    {<<U(e), RDFtype, NamedIndividual>>, <<U(e), RDFtype, Country>>,
     <<U(e), isoCode, StrLit(code)>>}
\* The input files of the pool checks: one Country more than the pool has
\* workers. The codes of the first two follow the order of the identifiers, or
\* not ("Z" sorts last), or are equal; the first entity has one record.
PoolSize == max_workers + 1
PoolCodes ==
    {[i \in 1..PoolSize |-> IF i = 1 THEN c1 ELSE IF i = 2 THEN c2 ELSE EntityNames[i]] :
        c1 \in {"A", "Z"}, c2 \in {"B", "Z"}}
PoolInputs ==
    {UNION {CodedCountry(EntityNames[i], cd[i]) : i \in 1..PoolSize}
        \cup RecordTriples(1, "A", Shape({GoodsTrade}, {IntLit(1)}, {Export}, {DecLit(1)})) :
        cd \in PoolCodes}

\* The input files of the re-runs: the file an earlier run has written for two
\* countries with one record each, where the record of the first country has,
\* since that run, kept its value or changed it.
RerunShapes ==
    {Shape({NamedIndividual, GoodsTrade}, {IntLit(1)}, {Export}, {DecLit(1)}),
     Shape({NamedIndividual, GoodsTrade}, {IntLit(1)}, {Export}, {DecLit(MaxValue)}),
     Shape({ServicesTrade}, {IntLit(MaxYear)}, {Import}, {DecLit(1)})}
Measurements(s1, s2) ==
    EntityTriples("A", "country") \cup EntityTriples("B", "country")
        \cup RecordTriples(1, "A", s1) \cup RecordTriples(2, "B", s2)
RerunInputs(r) ==
    {(SequentialRun(Measurements(s0, s2), r) \ Measurements(s0, s2)) \cup Measurements(s1, s2) :
        s0 \in RerunShapes, s1 \in RerunShapes, s2 \in RerunShapes}

\* ---------------------------------------------------------------- ingestion
\* The validated rows of the trade CSV (load_comtrade_csv): reporter, partner,
\* period, flow description, type code and value. Several rows may agree in
\* everything but the value; a partner code may be empty.
TradeRows ==
    [reporterISO : {"A"}, partnerISO : {"B", ""}, period : {1, MaxYear},
     flowDesc : {"Export", "Import", "Re-import"}, typeCode : {"C", "S"},
     primaryValue : {1, MaxValue}]
MaxRecords == 2
RecordLists == UNION {[1..n -> TradeRows] : n \in 0..MaxRecords}

\* 'Import' if 'Import' in record['flowDesc'] else 'Export'
FlowTypeOf(flowDesc) == IF flowDesc \in {"Import", "Re-import"} THEN "Import" ELSE "Export"

\* URIRef(f"{base}{reporter}_{partner}_{year}_{flow}_{type}"): the identifier is
\* made of these five parts and of nothing else
MeasurementUri(reporter_iso, partner_iso, year, flow_type, trade_type) ==
    Rec(<<reporter_iso, partner_iso, year, flow_type, trade_type>>)

\* process_trade_measurement: the triples it adds to graph G; nothing when a
\* code is empty
process_trade_measurement(G, reporter_iso, partner_iso, year, value, flow_type, trade_type) ==
    IF reporter_iso = "" \/ partner_iso = "" THEN {}
    ELSE LET measurement_uri == MeasurementUri(reporter_iso, partner_iso, year, flow_type, trade_type)
             measurement_class == IF trade_type = "C" THEN GoodsTrade ELSE ServicesTrade
         IN {<<measurement_uri, RDFtype, NamedIndividual>>,
             <<measurement_uri, RDFtype, measurement_class>>,
             <<measurement_uri, yearP, IntLit(year)>>,
             <<measurement_uri, tradeValue, DecLit(value)>>,
             <<measurement_uri, flowType, StrLit(flow_type)>>,
             <<measurement_uri, "tradeType", StrLit(trade_type)>>,
             <<U(reporter_iso), hasTradeMeasurement, measurement_uri>>,
             <<measurement_uri, "hasPartnerCountry", U(partner_iso)>>}

\* ------------------------------------------------------------------- state
VARIABLES
    input,      \* the triples of the input file countrydata.ttl
    rev,        \* the iteration order of the store (see First)
    faulty,     \* the units of work that may hit an unexpected exception
    workers,    \* the size of the worker pool
    g,          \* the in-memory graph
    pc,         \* where main() is
    all_years,  \* get_relevant_years(g, base)
    countries,  \* get_countries(g, base)
    status,     \* per submitted unit: Pending, Running, Completed, Failed
    yi,         \* per unit: index into all_years of the year being processed
    st,         \* per unit: 0 before calculate_year_totals, else the next statement
    totals,     \* per unit: the totals of the year being written
    wrote,      \* per unit: the triples it has added, in order (history)
    collected,  \* the futures as_completed has yielded and result() returned for
    reported,   \* the codes process_country has printed an error for
    output,     \* the output file: whether written, and its triples
    error,      \* the exception main() has raised to its caller, or "none"
    records     \* ingestion: the validated CSV rows add_trade_data has yet to process

vars ==
    <<input, rev, faulty, workers, g, pc, all_years, countries, status, yi, st,
      totals, wrote, collected, reported, output, error, records>>

\* what a run of the aggregation core never changes
env == <<input, rev, faulty, workers, records>>
unitVars == <<status, yi, st, totals, wrote>>

Units == 1..Len(status)
Terminal(u) == status[u] \in {"Completed", "Failed"}
Running == {u \in Units : status[u] = "Running"}
NoOutput == [written |-> FALSE, triples |-> {}]

InitMain ==
    /\ g = {}
    /\ pc = "load"
    /\ all_years = <<>>
    /\ countries = <<>>
    /\ status = <<>>
    /\ yi = <<>>
    /\ st = <<>>
    /\ totals = <<>>
    /\ wrote = <<>>
    /\ collected = {}
    /\ reported = {}
    /\ output = NoOutput
    /\ error = "none"
    /\ records = <<>>

Init ==
    /\ input \in RunInputs
    /\ rev \in BOOLEAN
    /\ faulty \in SUBSET (1..MaxFaulty)
    /\ workers \in {1, max_workers}
    /\ InitMain

\* -------------------------------------------------------------------- main
\* init_graph: g.parse(input_file) succeeds
LoadGraph ==
    /\ pc = "load"
    /\ g' = input
    /\ pc' = "discover"
    /\ UNCHANGED <<env, all_years, countries, unitVars, collected, reported, output, error>>

\* LoadFails where the error is recorded and main() goes on with what was read
LoadFails_Swallowed ==
    /\ pc = "load"
    /\ g' = input
    /\ pc' = "discover"
    /\ error' = "load"
    /\ UNCHANGED <<env, all_years, countries, unitVars, collected, reported, output>>

\* init_graph: g.parse(input_file) raises; main() prints and re-raises
LoadFails ==
    /\ pc = "load"
    /\ pc' = "raised"
    /\ error' = "load"
    /\ UNCHANGED <<env, g, all_years, countries, unitVars, collected, reported, output>>

\* get_relevant_years and get_countries
Discover ==
    /\ pc = "discover"
    /\ all_years' = get_relevant_years(g)
    /\ countries' = get_countries(g, rev)
    /\ pc' = "pool"
    /\ UNCHANGED <<env, g, unitVars, collected, reported, output, error>>

\* executor.submit(process_country, args) for the next country of the list
Submit ==
    /\ pc = "pool"
    /\ Len(status) < Len(countries)
    /\ status' = Append(status, "Pending")
    /\ yi' = Append(yi, 1)
    /\ st' = Append(st, 0)
    /\ totals' = Append(totals, ZeroTotals)
    /\ wrote' = Append(wrote, <<>>)
    /\ UNCHANGED <<env, g, pc, all_years, countries, collected, reported, output, error>>

\* for future in as_completed(futures): future.result() of a unit that completed
Collect(u) ==
    /\ pc = "pool"
    /\ Len(status) = Len(countries)
    /\ u \in Units \ collected
    /\ status[u] = "Completed"
    /\ collected' = collected \cup {u}
    /\ UNCHANGED <<env, g, pc, all_years, countries, unitVars, reported, output, error>>

\* CollectFailed with the exception of the failed future swallowed
CollectFailed_Swallowed(u) ==
    /\ pc = "pool"
    /\ Len(status) = Len(countries)
    /\ u \in Units \ collected
    /\ status[u] = "Failed"
    /\ collected' = collected \cup {u}
    /\ UNCHANGED <<env, g, pc, all_years, countries, unitVars, reported, output, error>>

\* future.result() of a unit that failed raises its exception inside the with block
CollectFailed(u) ==
    /\ pc = "pool"
    /\ Len(status) = Len(countries)
    /\ u \in Units \ collected
    /\ status[u] = "Failed"
    /\ pc' = "unwind"
    /\ UNCHANGED <<env, g, all_years, countries, unitVars, collected, reported, output, error>>

\* LeavePool without the as_completed loop: the block is left once all is submitted
LeavePool_NoWait ==
    /\ pc = "pool"
    /\ Len(status) = Len(countries)
    /\ pc' = "save"
    /\ UNCHANGED <<env, g, all_years, countries, unitVars, collected, reported, output, error>>

\* the with block is left normally: every future has been yielded
LeavePool ==
    /\ pc = "pool"
    /\ Len(status) = Len(countries)
    /\ collected = Units
    /\ pc' = "save"
    /\ UNCHANGED <<env, g, all_years, countries, unitVars, collected, reported, output, error>>

\* Unwind as shutdown(wait=False): the exception leaves the block at once
Unwind_NoWait ==
    /\ pc = "unwind"
    /\ pc' = "raised"
    /\ error' = "unit"
    /\ UNCHANGED <<env, g, all_years, countries, unitVars, collected, reported, output>>

\* Unwind as shutdown(wait=True, cancel_futures=True): only the units already
\* running are waited for, the pending ones are dropped
Unwind_CancelPending ==
    /\ pc = "unwind"
    /\ \A u \in Units : status[u] # "Running"
    /\ pc' = "raised"
    /\ error' = "unit"
    /\ UNCHANGED <<env, g, all_years, countries, unitVars, collected, reported, output>>

\* the with block is left by the exception: __exit__ is shutdown(wait=True), which
\* returns when the workers have run every submitted unit; then main() prints
\* and re-raises
Unwind ==
    /\ pc = "unwind"
    /\ \A u \in Units : Terminal(u)
    /\ pc' = "raised"
    /\ error' = "unit"
    /\ UNCHANGED <<env, g, all_years, countries, unitVars, collected, reported, output>>

\* g.serialize(destination=output_file)
Save ==
    /\ pc = "save"
    /\ output' = [written |-> TRUE, triples |-> g]
    /\ pc' = "done"
    /\ UNCHANGED <<env, g, all_years, countries, unitVars, collected, reported, error>>

\* g.serialize raises; main() prints and re-raises
SaveFails ==
    /\ pc = "save"
    /\ pc' = "raised"
    /\ error' = "save"
    /\ UNCHANGED <<env, g, all_years, countries, unitVars, collected, reported, output>>

\* Start with a pool that has a thread for every unit submitted
Start_Unbounded(u) ==
    /\ u \in Units
    /\ status[u] = "Pending"
    /\ status' = [status EXCEPT ![u] = "Running"]
    /\ UNCHANGED <<env, g, pc, all_years, countries, yi, st, totals, wrote,
                   collected, reported, output, error>>

\* ------------------------------------------------------------------- units
\* Start with a pool that keeps one of its threads idle
Start_OffByOne(u) ==
    /\ u \in Units
    /\ status[u] = "Pending"
    /\ Cardinality(Running) + 1 < workers
    /\ status' = [status EXCEPT ![u] = "Running"]
    /\ UNCHANGED <<env, g, pc, all_years, countries, yi, st, totals, wrote,
                   collected, reported, output, error>>

\* a worker of the pool takes a submitted unit
Start(u) ==
    /\ u \in Units
    /\ status[u] = "Pending"
    /\ Cardinality(Running) < workers
    /\ status' = [status EXCEPT ![u] = "Running"]
    /\ UNCHANGED <<env, g, pc, all_years, countries, yi, st, totals, wrote,
                   collected, reported, output, error>>

\* Calculate with the totals kept in one variable that all the units share
Calculate_SharedTotals(u) ==
    /\ u \in Units
    /\ status[u] = "Running"
    /\ st[u] = 0
    /\ yi[u] <= Len(all_years)
    /\ LET r == calculate_year_totals(g, rev, countries[u][1], all_years[yi[u]])
       IN IF r.kind = "raise"
          THEN /\ status' = [status EXCEPT ![u] = "Failed"]
               /\ reported' = reported \cup {countries[u][2]}
               /\ UNCHANGED <<yi, st, totals>>
          ELSE IF r.kind = "totals"
          THEN /\ totals' = [v \in Units |-> r.totals]
               /\ st' = [st EXCEPT ![u] = 1]
               /\ UNCHANGED <<status, yi, reported>>
          ELSE /\ yi' = [yi EXCEPT ![u] = @ + 1]
               /\ UNCHANGED <<status, st, totals, reported>>
    /\ UNCHANGED <<env, g, pc, all_years, countries, wrote, collected, output, error>>

\* Calculate where the scan unlinks the measurements it has read
Calculate_Consuming(u) ==
    /\ u \in Units
    /\ status[u] = "Running"
    /\ st[u] = 0
    /\ yi[u] <= Len(all_years)
    /\ LET r == calculate_year_totals(g, rev, countries[u][1], all_years[yi[u]])
       IN IF r.kind = "raise"
          THEN /\ status' = [status EXCEPT ![u] = "Failed"]
               /\ reported' = reported \cup {countries[u][2]}
               /\ UNCHANGED <<yi, st, totals>>
          ELSE IF r.kind = "totals"
          THEN /\ totals' = [totals EXCEPT ![u] = r.totals]
               /\ st' = [st EXCEPT ![u] = 1]
               /\ UNCHANGED <<status, yi, reported>>
          ELSE /\ yi' = [yi EXCEPT ![u] = @ + 1]
               /\ UNCHANGED <<status, st, totals, reported>>
    /\ g' = {t \in g : ~(t[1] = countries[u][1] /\ t[2] = hasTradeMeasurement)}
    /\ UNCHANGED <<env, pc, all_years, countries, wrote, collected, output, error>>

\* process_country: totals = calculate_year_totals(g, base, country_uri, year)
Calculate(u) ==
    /\ u \in Units
    /\ status[u] = "Running"
    /\ st[u] = 0
    /\ yi[u] <= Len(all_years)
    /\ LET r == calculate_year_totals(g, rev, countries[u][1], all_years[yi[u]])
       IN IF r.kind = "raise"
          THEN /\ status' = [status EXCEPT ![u] = "Failed"]
               /\ reported' = reported \cup {countries[u][2]}
               /\ UNCHANGED <<yi, st, totals>>
          ELSE IF r.kind = "totals"
          THEN /\ totals' = [totals EXCEPT ![u] = r.totals]
               /\ st' = [st EXCEPT ![u] = 1]
               /\ UNCHANGED <<status, yi, reported>>
          ELSE /\ yi' = [yi EXCEPT ![u] = @ + 1]
               /\ UNCHANGED <<status, st, totals, reported>>
    /\ UNCHANGED <<env, g, pc, all_years, countries, wrote, collected, output, error>>

\* AddStatement where every run names its aggregate nodes afresh
AddStatement_FreshNode(u) ==
    /\ u \in Units
    /\ status[u] = "Running"
    /\ st[u] >= 1
    /\ LET stmt == Statements(countries[u][1], all_years[yi[u]], totals[u])[st[u]]
           fresh(t) == IF t[1] = "agg" THEN <<"agg", t[2], t[3] + 1000>> ELSE t
           named == <<fresh(stmt[1]), stmt[2], fresh(stmt[3])>>
       IN /\ g' = g \cup {named}
          /\ wrote' = [wrote EXCEPT ![u] = Append(@, named)]
    /\ IF st[u] < NumStatements
       THEN /\ st' = [st EXCEPT ![u] = @ + 1]
            /\ UNCHANGED yi
       ELSE /\ st' = [st EXCEPT ![u] = 0]
            /\ yi' = [yi EXCEPT ![u] = @ + 1]
    /\ UNCHANGED <<env, pc, all_years, countries, status, totals, collected,
                   reported, output, error>>

\* add_trade_aggregate: g.add(statement) for the next statement of the batch
AddStatement(u) ==
    /\ u \in Units
    /\ status[u] = "Running"
    /\ st[u] >= 1
    /\ LET stmt == Statements(countries[u][1], all_years[yi[u]], totals[u])[st[u]]
       IN /\ g' = g \cup {stmt}
          /\ wrote' = [wrote EXCEPT ![u] = Append(@, stmt)]
    /\ IF st[u] < NumStatements
       THEN /\ st' = [st EXCEPT ![u] = @ + 1]
            /\ UNCHANGED yi
       ELSE /\ st' = [st EXCEPT ![u] = 0]
            /\ yi' = [yi EXCEPT ![u] = @ + 1]
    /\ UNCHANGED <<env, pc, all_years, countries, status, totals, collected,
                   reported, output, error>>

\* process_country returns after the last year
Complete(u) ==
    /\ u \in Units
    /\ status[u] = "Running"
    /\ st[u] = 0
    /\ yi[u] > Len(all_years)
    /\ status' = [status EXCEPT ![u] = "Completed"]
    /\ UNCHANGED <<env, g, pc, all_years, countries, yi, st, totals, wrote,
                   collected, reported, output, error>>

\* Fail where the pool queues the unit again after the exception
Fail_Retry(u) ==
    /\ u \in Units
    /\ status[u] = "Running"
    /\ u \in faulty
    /\ status' = [status EXCEPT ![u] = "Pending"]
    /\ reported' = reported \cup {countries[u][2]}
    /\ UNCHANGED <<env, g, pc, all_years, countries, yi, st, totals, wrote,
                   collected, output, error>>

\* an unexpected exception inside process_country: it prints the code and re-raises
Fail(u) ==
    /\ u \in Units
    /\ status[u] = "Running"
    /\ u \in faulty
    /\ status' = [status EXCEPT ![u] = "Failed"]
    /\ reported' = reported \cup {countries[u][2]}
    /\ UNCHANGED <<env, g, pc, all_years, countries, yi, st, totals, wrote,
                   collected, output, error>>

MaxUnits == Len(EntityNames) * 2

Next ==
    \/ LoadGraph
    \/ LoadFails
    \/ Discover
    \/ Submit
    \/ \E u \in 1..MaxUnits : Collect(u)
    \/ \E u \in 1..MaxUnits : CollectFailed(u)
    \/ LeavePool
    \/ Unwind
    \/ Save
    \/ SaveFails
    \/ \E u \in 1..MaxUnits : Start(u)
    \/ \E u \in 1..MaxUnits : Calculate(u)
    \/ \E u \in 1..MaxUnits : AddStatement(u)
    \/ \E u \in 1..MaxUnits : Complete(u)
    \/ \E u \in 1..MaxUnits : Fail(u)

Spec == Init /\ [][Next]_vars

\* The aggregator checks: a run without faults over the wide inputs.
InitTotals ==
    /\ input \in WideInputs
    /\ rev \in BOOLEAN
    /\ faulty = {}
    /\ workers = max_workers
    /\ InitMain

NextTotals ==
    \/ LoadGraph
    \/ Discover
    \/ Submit
    \/ \E u \in 1..MaxUnits : Collect(u)
    \/ LeavePool
    \/ Save
    \/ \E u \in 1..MaxUnits : Start(u)
    \/ \E u \in 1..MaxUnits : Calculate(u)
    \/ \E u \in 1..MaxUnits : AddStatement(u)
    \/ \E u \in 1..MaxUnits : Complete(u)

SpecTotals == InitTotals /\ [][NextTotals]_vars

\* The example run: a run without faults over the example inputs.
InitExample ==
    /\ input \in ExampleInputs
    /\ rev \in BOOLEAN
    /\ faulty = {}
    /\ workers \in {1, max_workers}
    /\ InitMain

SpecExample == InitExample /\ [][NextTotals]_vars

\* The pool checks: a run without faults with more units than workers.
InitPool ==
    /\ input \in PoolInputs
    /\ rev \in BOOLEAN
    /\ faulty = {}
    /\ workers = max_workers
    /\ InitMain

SpecPool == InitPool /\ [][NextTotals]_vars

\* The orchestrated run under a fair scheduler: as long as the main thread or a
\* thread of the pool can take a step, one of them eventually does.
Fairness == WF_vars(Next)

\* its input files: two countries, the first with a record that gives an
\* aggregate, the second with a record of value zero
FairInputs ==
    {EntityTriples("A", "country") \cup EntityTriples("B", "country")
        \cup RecordTriples(1, "A", Shape({NamedIndividual, GoodsTrade}, {IntLit(1)}, {Export}, {DecLit(1)}))
        \cup RecordTriples(2, "B", Shape({ServicesTrade}, {IntLit(1)}, {Export}, {DecLit(0)}))}
InitFair ==
    /\ input \in FairInputs
    /\ rev \in BOOLEAN
    /\ faulty \in SUBSET (1..MaxFaulty)
    /\ workers \in {1, max_workers}
    /\ InitMain

SpecFair == InitFair /\ [][Next]_vars /\ Fairness

\* The re-runs: a run without faults over a file that holds earlier aggregates.
InitRerun ==
    /\ rev \in BOOLEAN
    /\ input \in RerunInputs(rev)
    /\ faulty = {}
    /\ workers = max_workers
    /\ InitMain

SpecRerun == InitRerun /\ [][NextTotals]_vars

\* Ingestion of the trade rows (src/data/main.py): add_trade_data takes the
\* rows one after the other.
AddTradeRecord ==
    /\ pc = "ingest"
    /\ records # <<>>
    /\ LET record == Head(records)
       IN g' = g \cup process_trade_measurement(g, record.reporterISO, record.partnerISO,
                          record.period, record.primaryValue,
                          FlowTypeOf(record.flowDesc), record.typeCode)
    /\ records' = Tail(records)
    /\ UNCHANGED <<input, rev, faulty, workers, pc, all_years, countries, unitVars,
                   collected, reported, output, error>>

InitIngest ==
    /\ records \in RecordLists
    /\ input = {} /\ rev = FALSE /\ faulty = {} /\ workers = max_workers
    /\ g = {}
    /\ pc = "ingest"
    /\ all_years = <<>> /\ countries = <<>>
    /\ status = <<>> /\ yi = <<>> /\ st = <<>> /\ totals = <<>> /\ wrote = <<>>
    /\ collected = {} /\ reported = {}
    /\ output = NoOutput
    /\ error = "none"

NextIngest == AddTradeRecord

SpecIngest == InitIngest /\ [][NextIngest]_vars

\* ================================================================== claims
\* main() has submitted a unit for every pair of the countries list
AllDispatched ==
    pc \notin {"load", "discover"} /\ error # "load" /\ Len(status) = Len(countries)
\* the triples the unit u adds in a run where it meets no fault
UnitWrites(u) == ProcessCountryFrom(input, rev, countries[u][1], all_years, 1) \ input
RaisedByUnit == pc = "raised" /\ error = "unit"

\* C1 as stated: when a unit of work fails, the run still serializes to the
\* output file the aggregates computed for the other entities, and reports the
\* entities that failed.
C1_Original ==
    RaisedByUnit =>
        /\ output.written
        /\ \A u \in Units : status[u] = "Completed" => UnitWrites(u) \subseteq output.triples
        /\ \A u \in Units : status[u] = "Failed" => countries[u][2] \in reported

\* C1 amended: when a unit of work fails, main() re-raises and never writes the
\* output file; the aggregates computed by the units that completed are in the
\* in-memory graph only, and process_country has reported the code of every
\* failed unit.
C1_NoSaveOnFailure ==
    /\ (\E u \in Units : status[u] = "Failed") => ~output.written
    /\ RaisedByUnit =>
        /\ \A u \in Units : status[u] = "Completed" => UnitWrites(u) \subseteq g
        /\ \A u \in Units : status[u] = "Failed" => countries[u][2] \in reported
C1_Witness ==
    /\ RaisedByUnit
    /\ \E u \in Units : status[u] = "Failed"
    /\ \E u \in Units : status[u] = "Completed" /\ UnitWrites(u) # {}

\* C2: if the unit of one entity raises, every other unit that meets no fault is
\* still run to completion, and when main() returns control to its caller the
\* graph holds every aggregate triple that unit writes in a failure-free run.
C2_OthersComplete ==
    RaisedByUnit =>
        /\ Len(status) = Len(countries)
        /\ \A u \in Units \ faulty : status[u] = "Completed" /\ UnitWrites(u) \subseteq g
C2_Witness ==
    /\ RaisedByUnit
    /\ \E u \in Units \ faulty : UnitWrites(u) # {} /\ UnitWrites(u) \subseteq g
    /\ \E u \in Units : status[u] = "Failed"

\* C3: the exception of a failed unit has left the worker-pool block only in
\* states where every dispatched unit is Completed or Failed.
C3_RaiseAfterAllTerminal ==
    (pc = "raised" /\ error = "unit") =>
        AllDispatched /\ \A u \in Units : Terminal(u)
C3_Witness ==
    /\ pc = "raised" /\ error = "unit"
    /\ Len(status) >= 2
    /\ \A u \in Units : Terminal(u)

\* C4: once every unit has completed, the graph is the graph of the sequential
\* run on the same input, whatever the pool size and the interleaving were.
C4_SameAsSequential ==
    (AllDispatched /\ \A u \in Units : status[u] = "Completed") =>
        g = SequentialRun(input, rev)
C4_Witness ==
    /\ pc = "done"
    /\ workers = max_workers
    /\ Len(status) >= 2
    /\ \A u \in Units : wrote[u] # <<>>
    /\ g = SequentialRun(input, rev)

\* C5: the graph is serialized only when every dispatched unit has completed,
\* and the graph never changes after the save: it equals the file written.
C5_SaveAfterAllUnits ==
    /\ (pc \in {"save", "done"} \/ output.written) =>
            AllDispatched /\ \A u \in Units : status[u] = "Completed"
    /\ output.written => g = output.triples
C5_Witness ==
    /\ output.written
    /\ Len(status) >= 2
    /\ output.triples # input

\* C6 as stated: the sets of triples that two different dispatched units insert
\* are disjoint, for every input that discovery produces units from.
C6_Original ==
    \A u \in Units : \A v \in Units :
        u # v => Range(wrote[u]) \cap Range(wrote[v]) = {}

\* the entity has a goods- or services-trade measurement of period y whose value
\* is strictly positive
HasPositiveIn(G, e, y) ==
    \E m \in Objects(G, e, hasTradeMeasurement) :
        /\ Objects(G, m, RDFtype) \cap {GoodsTrade, ServicesTrade} # {}
        /\ IntLit(y) \in Objects(G, m, yearP)
        /\ Objects(G, m, flowType) \cap {Export, Import} # {}
        /\ \E v \in Objects(G, m, tradeValue) : FGt0(ToFloat(v))
\* the writes, by any unit, of the type statement of the aggregate node a
CreatingWrites(a) ==
    {w \in UNION {{<<u, i>> : i \in DOMAIN wrote[u]} : u \in Units} :
        wrote[w[1]][w[2]] = <<a, RDFtype, TradeAggregate>>}

\* C7 as stated: after a successful run every (entity, period) with a linked
\* goods- or services-trade measurement of that period and of positive value
\* has exactly one aggregate node, linked from the entity and created by
\* exactly one write of one unit.
C7_Original ==
    pc = "done" =>
        \A e \in SubjectsOfType(input, Country) : \A y \in 1..MaxYear :
            HasPositiveIn(input, e, y) =>
                /\ <<AggregateUri(e, y), RDFtype, TradeAggregate>> \in g
                /\ <<e, hasTradeAggregate, AggregateUri(e, y)>> \in g
                /\ Cardinality(CreatingWrites(AggregateUri(e, y))) = 1

\* a value that float() rejects, or that is zero or negative
NonPositiveOrBad(v) == ToFloat(v) = ValueError \/ FLe0(ToFloat(v))
\* every value of every measurement of period y linked from e is zero, negative
\* or unparseable, or the measurement has no value
NoPositiveData(G, e, y) ==
    \A m \in Objects(G, e, hasTradeMeasurement) :
        IntLit(y) \in Objects(G, m, yearP) =>
            \A v \in Objects(G, m, tradeValue) : NonPositiveOrBad(v)
\* the triples of graph G about the aggregate node of (e, y)
AggTriples(G, e, y) == {t \in G : t[1] = AggregateUri(e, y) \/ t[3] = AggregateUri(e, y)}
RawBuckets ==
    {"goodsExportValue", "goodsImportValue", "servicesExportValue", "servicesImportValue"}
Entities == {U(EntityNames[i]) : i \in DOMAIN EntityNames}

\* C8: for every (entity, period) whose linked measurement values are all zero,
\* negative, unparseable or absent, calculate_year_totals returns None and the
\* graph never holds a triple of that pair's aggregate node; a unit writes an
\* aggregate only from totals with a strictly positive bucket, and every
\* aggregate node of the final graph has a strictly positive raw bucket.
C8_Sparsity ==
    /\ pc \notin {"load"} /\ error # "load" =>
        \A e \in Entities : \A y \in 1..MaxYear :
            NoPositiveData(input, e, y) =>
                /\ calculate_year_totals(g, rev, e, y) = None
                /\ AggTriples(g, e, y) = {}
    /\ \A u \in Units : st[u] >= 1 => \E k \in BucketKeys : FGt0(totals[u][k])
    /\ pc = "done" =>
        \A a \in SubjectsOfType(g, TradeAggregate) :
            \E p \in RawBuckets : \E n \in 1..(2 * MaxValue) : <<a, p, DecLit(n)>> \in g
C8_Witness ==
    /\ pc = "done"
    /\ g # input
    /\ \E y \in Range(all_years) :
        /\ NoPositiveData(input, U("A"), y)
        /\ \E m \in Objects(input, U("A"), hasTradeMeasurement) :
              /\ IntLit(y) \in Objects(input, m, yearP)
              /\ Objects(input, m, tradeValue) # {}
              /\ Objects(input, m, RDFtype) \cap {GoodsTrade, ServicesTrade} # {}
        /\ AggTriples(g, U("A"), y) = {}

\* graph G without the triples about the nodes ms
WithoutNodes(G, ms) == {t \in G : t[1] \notin ms /\ t[3] \notin ms}
Records(G) == UNION {Objects(G, e, hasTradeMeasurement) : e \in Entities}
\* the triples a sequential run adds to the loaded graph G
Added(G, r) == SequentialRun(G, r) \ G

\* a record whose category or direction is not a recognized one
Unrecognized(G, m) ==
    \/ Objects(G, m, RDFtype) # {}
        /\ Objects(G, m, RDFtype) \cap {GoodsTrade, ServicesTrade} = {}
    \/ Objects(G, m, flowType) # {}
        /\ Objects(G, m, flowType) \cap {Export, Import} = {}

\* C9 as stated: a record of unrecognized category or direction is skipped: no
\* unit raises, and the run adds the triples it adds when these records are
\* not in the input.
C9_Original ==
    /\ \A u \in Units : status[u] # "Failed"
    /\ pc = "done" =>
        g \ input =
            Added(WithoutNodes(input, {m \in Records(input) : Unrecognized(input, m)}), rev)

\* a record with a missing field, or whose values are all unparseable or
\* non-positive
Malformed(G, m) ==
    \/ Objects(G, m, RDFtype) = {}
    \/ Objects(G, m, yearP) = {}
    \/ Objects(G, m, flowType) = {}
    \/ Objects(G, m, tradeValue) = {}
    \/ \A v \in Objects(G, m, tradeValue) : NonPositiveOrBad(v)
WellFormedInput == WithoutNodes(input, {m \in Records(input) : Malformed(input, m)})

ExampleNode == <<"agg", "A", 2020>>

AggNodes(G) == {t[1] : t \in {x \in G : x[1][1] = "agg"}}
\* the four raw buckets of node a are in G, each with one decimal number
IntegerBuckets(G, a) ==
    \A p \in RawBuckets :
        /\ Cardinality(Objects(G, a, p)) = 1
        /\ \A o \in Objects(G, a, p) : o[1] = "dec"
\* the number of the one object of predicate p of node a
ValueOf(G, a, p) == (CHOOSE o \in Objects(G, a, p) : TRUE)[2]
Balances == {"totalTradeBalance", "goodsTradeBalance", "servicesTradeBalance"}

\* C12: for every aggregate node of the graph whose four raw buckets are written
\* and are integers: total export = goods export + services export, total
\* import = goods import + services import, and every balance statement of the
\* node is total export - total import, goods export - goods import, services
\* export - services import respectively; the file written holds the three
\* balance statements of every such node.
C12_Arithmetic ==
    \A a \in AggNodes(g) :
        IntegerBuckets(g, a) =>
            LET ge == ValueOf(g, a, "goodsExportValue")
                gi == ValueOf(g, a, "goodsImportValue")
                se == ValueOf(g, a, "servicesExportValue")
                si == ValueOf(g, a, "servicesImportValue")
            IN /\ Objects(g, a, "totalExportValue") = {DecLit(ge + se)}
               /\ Objects(g, a, "totalImportValue") = {DecLit(gi + si)}
               /\ Objects(g, a, "totalTradeBalance") \subseteq {DecLit((ge + se) - (gi + si))}
               /\ Objects(g, a, "goodsTradeBalance") \subseteq {DecLit(ge - gi)}
               /\ Objects(g, a, "servicesTradeBalance") \subseteq {DecLit(se - si)}
               /\ pc = "done" => \A p \in Balances : Objects(output.triples, a, p) # {}
\* a written aggregate that sums two records into one bucket, and one with a
\* negative balance beside a positive export
C12_Witness ==
    /\ pc = "done"
    /\ \E a \in AggNodes(output.triples) :
        /\ IntegerBuckets(output.triples, a)
        /\ \/ ValueOf(output.triples, a, "goodsExportValue") = 1 + MaxValue
           \/ /\ ValueOf(output.triples, a, "goodsExportValue") > 0
              /\ ValueOf(output.triples, a, "servicesImportValue") > 0
              /\ ValueOf(output.triples, a, "totalTradeBalance") < 0

\* C13 as stated: in every state, each raw bucket statement (goods export, goods
\* import, services export, services import) of every aggregate node of the
\* graph carries a number that is >= 0.
C13_Original ==
    \A a \in AggNodes(g) : \A p \in RawBuckets : \A o \in Objects(g, a, p) :
        o[1] = "dec" /\ o[2] >= 0

\* the identifier '{entity_id}_trade_aggregate_{period}'
IdOf(e, y) == <<"agg", e[2], y>>

\* C14: every statement a unit writes for its entity e is about the node
\* '{e}_trade_aggregate_{y}' of a discovered period y, the year statement of
\* that node says y and the link from e points to it; under every scheduling
\* and pool size the aggregate identifiers of the file written are those a
\* sequential run creates on the same input.
C14_AggregateIdentity ==
    /\ \A u \in Units : \A i \in DOMAIN wrote[u] :
        LET t == wrote[u][i]
            e == countries[u][1]
        IN \E y \in Range(all_years) :
            /\ t[1] = IdOf(e, y) \/ (t[1] = e /\ t[3] = IdOf(e, y))
            /\ t[2] = yearP => t[3] = IntLit(y)
    /\ pc = "done" => AggNodes(output.triples) = AggNodes(SequentialRun(input, rev))
\* two aggregate nodes were written and saved
C14_Witness ==
    /\ pc = "done"
    /\ Cardinality(AggNodes(output.triples)) >= 2
    /\ \E u \in Units : Len(wrote[u]) = NumStatements

\* C15 as stated: once main() has submitted its units, every entity typed
\* Country in the store has exactly one unit of work.
C15_Original ==
    AllDispatched =>
        \A e \in SubjectsOfType(input, Country) :
            Cardinality({u \in Units : countries[u][1] = e}) = 1

\* code a is not after code b in the order of strings
CodeLeq(a, b) == NameRank(a[2]) <= NameRank(b[2])

\* C16: the list get_countries returns holds exactly the (entity, code) pairs of
\* the entities typed Country, each once, in ascending order of code, whatever
\* the store's iteration order; main() submits the units in the order of that
\* list, so unit u is the unit of the u-th pair.
C16_CodeOrder ==
    pc \notin {"load", "discover"} /\ error # "load" =>
        /\ Range(countries) =
              {<<t[1], t[3]>> : t \in {x \in input : /\ x[2] = isoCode
                                                     /\ <<x[1], RDFtype, Country>> \in input}}
        /\ \A i, j \in 1..Len(countries) :
              i < j => countries[i] # countries[j] /\ CodeLeq(countries[i][2], countries[j][2])
        /\ Len(status) <= Len(countries)
        /\ \A u \in Units : \A i \in DOMAIN wrote[u] :
              wrote[u][i][1] = countries[u][1] \/ wrote[u][i][1][2] = countries[u][1][2]
\* the entity with the first identifier has the last code and its unit, the last
\* one submitted, has written
C16_Witness ==
    /\ pc = "done"
    /\ countries[PoolSize] = <<U("A"), StrLit("Z")>>
    /\ countries[1][1] = U("C")
    /\ Len(wrote[PoolSize]) = NumStatements

\* C20: in every state at most max_workers (4) units are Running; a Pending unit
\* becomes Running only in a state where fewer than max_workers units are
\* Running, that is when a worker has brought its previous unit to Completed or
\* Failed; and a unit is Completed only after its pass over all the periods.
C20_PoolBound ==
    /\ [](Cardinality(Running) <= max_workers)
    /\ [](\A u \in Units : status[u] = "Completed" => yi[u] = Len(all_years) + 1 /\ st[u] = 0)
    /\ [][\A u \in Units :
            status[u] = "Pending" /\ status'[u] = "Running" =>
                Cardinality(Running) < max_workers]_vars
\* all the workers are busy and a unit waits
C20_Witness ==
    /\ Cardinality(Running) = max_workers
    /\ \E u \in Units : status[u] = "Pending"
    /\ \E u \in Units : status[u] = "Running" /\ st[u] > 0

\* the literal l reads as the integer n
ReadsAs(l, n) ==
    \/ l = IntLit(n)
    \/ l[1] = "str" /\ n \in 1..Len(DigitStrings) /\ l[2] = DigitStrings[n]
\* the subjects of G typed goods trade or services trade
TradeRecords(G) ==
    {t[1] : t \in {x \in G : x[2] = RDFtype /\ x[3] \in {GoodsTrade, ServicesTrade}}}

\* C17: the list get_relevant_years returns is strictly ascending (so without
\* duplicates) and holds exactly the integers that the period of some record
\* typed goods trade or services trade reads as; a period that is not a number
\* adds nothing and hides nothing.
C17_RelevantYears ==
    pc \notin {"load", "discover"} /\ error # "load" =>
        /\ \A i, j \in 1..Len(all_years) : i < j => all_years[i] < all_years[j]
        /\ Range(all_years) =
              {n \in 1..(MaxYear + Len(DigitStrings)) :
                  \E m \in TradeRecords(input) : \E l \in Objects(input, m, yearP) :
                      ReadsAs(l, n)}
\* a trade record with a period that is not a number beside one whose period is
\* found; and a list of two periods
C17_Witness ==
    /\ pc = "done"
    /\ \/ /\ \E m \in TradeRecords(input) : StrLit("n/a") \in Objects(input, m, yearP)
          /\ Len(all_years) = 1
       \/ /\ Len(all_years) = 2
          /\ \E m \in TradeRecords(input) : Cardinality(Objects(input, m, yearP)) = 2

\* C18: when loading the input file has failed the run is over with that
\* error: no unit of work exists (none was submitted, so none left Pending), no
\* period or entity was discovered, no totals were computed, no statement was
\* written and the output file is not written.
C18_AbortOnLoadFailure ==
    error = "load" =>
        /\ pc = "raised"
        /\ status = <<>> /\ countries = <<>> /\ all_years = <<>>
        /\ totals = <<>> /\ wrote = <<>>
        /\ AggNodes(g) = {}
        /\ output = NoOutput
C18_Witness == error = "load" /\ pc = "raised" /\ input # {} /\ ~output.written

\* the steps of the life of a unit of work
UnitSteps ==
    {<<"Pending", "Running">>, <<"Running", "Completed">>, <<"Running", "Failed">>}

\* C19: in every step of a run, every unit of work keeps its state or takes one
\* of the steps Pending -> Running, Running -> Completed, Running -> Failed; no
\* unit disappears and a new unit is Pending. So Completed and Failed are
\* absorbing, a failed unit is not run again and no unit goes back to Pending.
C19_UnitLifecycle ==
    [][/\ Len(status') >= Len(status)
       /\ \A u \in 1..Len(status') :
            IF u \in Units
            THEN status'[u] = status[u] \/ <<status[u], status'[u]>> \in UnitSteps
            ELSE status'[u] = "Pending"]_vars
\* the run is over: one unit failed and stayed Failed, another completed
C19_Witness ==
    /\ pc = "raised"
    /\ \E u, v \in Units : status[u] = "Failed" /\ status[v] = "Completed" /\ wrote[v] # <<>>

\* the aggregate nodes graph G mentions, as a subject or as the target of a link
NodesOf(G) == AggNodes(G) \cup {t[3] : t \in {x \in G : x[3][1] = "agg"}}
Totals == {"totalExportValue", "totalImportValue"}
\* node a has its type, its period, the nine numeric fields and a link from an entity
CompleteNode(G, a) ==
    /\ <<a, RDFtype, TradeAggregate>> \in G
    /\ Objects(G, a, yearP) # {}
    /\ \A p \in RawBuckets \cup Totals \cup Balances : Objects(G, a, p) # {}
    /\ \E t \in G : t[2] = hasTradeAggregate /\ t[3] = a
\* every unit submitted is Completed or Failed
AllTerminal == AllDispatched /\ \A u \in Units : Terminal(u)

\* C21 as stated: in every state where all units are terminal, every aggregate
\* node of the graph is complete and linked from an entity.
C21_Original ==
    AllTerminal => \A a \in NodesOf(g) : CompleteNode(g, a)

\* a statement about an aggregate node, or a link from an entity to one
AggregateTriple(t) ==
    \/ t[1][1] = "agg"
    \/ t[1][1] = "uri" /\ t[2] = hasTradeAggregate /\ t[3][1] = "agg"
\* the triples of G whose subject is a measurement record
RecordTriplesOf(G) == {t \in G : t[1][1] = "rec"}

\* C22: once the file is loaded, in every state of every run (with failed units
\* or not) every triple of the input is in the graph, the triples whose subject
\* is a measurement record are those of the input, and every other triple of
\* the graph is a statement about an aggregate node or an entity's link to one;
\* the graph changes only when the file is loaded and when a writer inserts a
\* statement, so no call of calculate_year_totals changes it; the file written
\* holds the input too.
C22_InputPreserved ==
    /\ [](pc # "load" /\ error # "load" =>
            /\ input \subseteq g
            /\ RecordTriplesOf(g) = RecordTriplesOf(input)
            /\ \A t \in g \ input : AggregateTriple(t))
    /\ [](output.written => input \subseteq output.triples)
    /\ [][g' # g =>
            \/ pc = "load" /\ g' = input
            \/ \E u \in Units : /\ st[u] >= 1
                                /\ Len(wrote'[u]) = Len(wrote[u]) + 1
                                /\ wrote'[u] = Append(wrote[u], wrote'[u][Len(wrote'[u])])
                                /\ g' = g \cup {wrote'[u][Len(wrote'[u])]}]_vars
\* a run that ended with a failed unit after another unit wrote, and input records
C22_Witness ==
    /\ RaisedByUnit
    /\ RecordTriplesOf(input) # {}
    /\ g # input
    /\ \E u \in Units : status[u] = "Completed" /\ yi[u] > 1

\* C23: under fair scheduling every run reaches the end of main(), where the
\* output is saved or an exception is raised to the caller, and every unit
\* submitted reaches Completed or Failed.
C23_Termination ==
    <>(/\ pc \in {"done", "raised"}
       /\ Len(status) = Len(countries)
       /\ \A u \in Units : Terminal(u))
\* both ends: a run that saved after its units completed, or one that raised
\* after a unit failed and the others ended
C23_Witness ==
    /\ AllTerminal
    /\ Units # {}
    /\ \/ pc = "done" /\ output.written
       \/ RaisedByUnit /\ \E u \in Units : status[u] = "Completed"

\* every record linked from e has one type, one period, one direction that is
\* Export or Import, and one value
SingleFielded(G, e) ==
    \A m \in Objects(G, e, hasTradeMeasurement) :
        /\ Cardinality(Objects(G, m, RDFtype)) = 1
        /\ Cardinality(Objects(G, m, yearP)) = 1
        /\ Cardinality(Objects(G, m, flowType)) = 1
        /\ Objects(G, m, flowType) \subseteq {Export, Import}
        /\ Cardinality(Objects(G, m, tradeValue)) = 1
\* the number a value literal stands for, 0 when it stands for none
NumberOf(v) == IF v[1] \in {"dec", "int"} THEN v[2] ELSE 0
\* the records linked from e of category cat, direction dir and period p whose
\* value is > 0
Matching(G, e, p, cat, dir) ==
    {m \in Objects(G, e, hasTradeMeasurement) :
        /\ Objects(G, m, RDFtype) = {cat}
        /\ Objects(G, m, yearP) = {IntLit(p)}
        /\ Objects(G, m, flowType) = {dir}
        /\ \E v \in Objects(G, m, tradeValue) : NumberOf(v) > 0}
RECURSIVE SumOfValues(_, _)
SumOfValues(G, ms) ==
    IF ms = {} THEN 0
    ELSE LET m == CHOOSE x \in ms : TRUE
         IN NumberOf(CHOOSE v \in Objects(G, m, tradeValue) : TRUE) + SumOfValues(G, ms \ {m})
\* the four sums the claim describes
ExpectedTotals(G, e, p) ==
    [goods_export |-> FNum(SumOfValues(G, Matching(G, e, p, GoodsTrade, Export))),
     goods_import |-> FNum(SumOfValues(G, Matching(G, e, p, GoodsTrade, Import))),
     services_export |-> FNum(SumOfValues(G, Matching(G, e, p, ServicesTrade, Export))),
     services_import |-> FNum(SumOfValues(G, Matching(G, e, p, ServicesTrade, Import)))]

\* C24 as stated: for an entity whose linked records each have one type, one
\* period, one direction in {Export, Import} and one value, the totals that
\* calculate_year_totals returns for a period are, bucket by bucket, the sums of
\* the values > 0 of the records of that category, direction and period, and it
\* returns no-data exactly when the four sums are 0.
C24_Original ==
    \A u \in Units :
        SingleFielded(input, countries[u][1]) =>
            /\ st[u] >= 1 =>
                totals[u] = ExpectedTotals(input, countries[u][1], all_years[yi[u]])
            /\ \A i \in 1..Len(all_years) :
                (i < yi[u] /\ status[u] # "Failed") =>
                    (AggTriples(g, countries[u][1], all_years[i]) = {}
                        <=> ExpectedTotals(input, countries[u][1], all_years[i]) = ZeroTotals)

\* the bucket of a category and a direction
BucketOf(cat, dir) ==
    (IF cat = GoodsTrade THEN "goods" ELSE "services") \o "_"
        \o (IF dir = Export THEN "export" ELSE "import")

\* C25 as stated: a record that carries a recognized category together with
\* owl:NamedIndividual, with one period, one direction (Export or Import) and
\* one positive value, contributes its value to the bucket of its category and
\* direction for its period, in either order of the store.
C25_Original ==
    pc # "load" /\ error # "load" =>
        \A e \in Entities : \A m \in Objects(input, e, hasTradeMeasurement) :
            \A cat \in {GoodsTrade, ServicesTrade} : \A dir \in {Export, Import} :
                \A p \in 1..MaxYear : \A n \in 1..MaxValue :
                    (/\ Objects(input, m, RDFtype) = {NamedIndividual, cat}
                     /\ Objects(input, m, yearP) = {IntLit(p)}
                     /\ Objects(input, m, flowType) = {dir}
                     /\ Objects(input, m, tradeValue) = {DecLit(n)})
                    => LET r == calculate_year_totals(input, rev, e, p)
                       IN /\ r.kind = "totals"
                          /\ r.totals[BucketOf(cat, dir)][1] = "num"
                          /\ r.totals[BucketOf(cat, dir)][2] >= n

\* the triples of G that are not about aggregate nodes
MeasurementsOf(G) == {t \in G : ~AggregateTriple(t)}
\* the input is what a run over its own measurements writes
HoldsOwnAggregates == input = SequentialRun(MeasurementsOf(input), rev)

\* C26: when the input file already holds the aggregates of a run over the
\* measurements it holds, the run inserts only triples that are in the store
\* already: the graph stays equal to the loaded file in every state, the file
\* written equals the input file, and no aggregate node is added.
C26_RerunAddsNothing ==
    HoldsOwnAggregates =>
        /\ pc # "load" => g = input
        /\ \A u \in Units : \A i \in DOMAIN wrote[u] : wrote[u][i] \in input
        /\ pc = "done" => output.triples = input /\ NodesOf(output.triples) = NodesOf(input)
\* the re-run wrote the statements of an aggregate again, and saved
C26_Witness ==
    /\ HoldsOwnAggregates
    /\ pc = "done"
    /\ \A u \in Units : Len(wrote[u]) = NumStatements
    /\ NodesOf(input) # {}

NumericFields == RawBuckets \cup Totals \cup Balances

\* C27 as stated: in every reachable state, also of a run over a file that holds
\* the aggregates of an earlier run over other measurement values, no aggregate
\* node has two values for one of its nine numeric fields.
C27_Original ==
    \A a \in NodesOf(g) : \A p \in NumericFields : Cardinality(Objects(g, a, p)) <= 1

\* e is typed Country and has a code
CodedCountryIn(G, e) == <<e, RDFtype, Country>> \in G /\ Objects(G, e, isoCode) # {}

\* C28: every unit of work is the unit of a subject typed Country with a code,
\* and every aggregate node written, and every link to one, is that of such a
\* subject; an entity with linked measurements that is not typed Country or
\* has no code has no unit, no aggregate node and no link to one, in any state.
C28_OnlyCodedCountries ==
    pc # "load" /\ error # "load" =>
        /\ \A i \in 1..Len(countries) : CodedCountryIn(input, countries[i][1])
        /\ \A t \in g \ input :
            /\ t[2] = hasTradeAggregate => CodedCountryIn(input, t[1])
            /\ t[1][1] = "agg" => CodedCountryIn(input, U(t[1][2]))
        /\ \A e \in Entities :
            (Objects(input, e, hasTradeMeasurement) # {} /\ ~CodedCountryIn(input, e)) =>
                /\ \A i \in 1..Len(countries) : countries[i][1] # e
                /\ Objects(g, e, hasTradeAggregate) = {}
\* a finished run over a file where an entity that is not a Country, or has no
\* code, has a record of positive value
C28_Witness ==
    /\ pc = "done"
    /\ g # input
    /\ \E e \in Entities : \E y \in 1..MaxYear :
        /\ ~CodedCountryIn(input, e)
        /\ HasPositiveIn(input, e, y)
        /\ AggTriples(g, e, y) = {}

\* C29 as stated: for a unit that failed while processing the period at index
\* yi, the aggregates it wrote for earlier periods are in the graph and
\* complete, the graph holds no triple of an aggregate of its entity for that
\* period or a later one, and every triple any unit wrote is still in the graph.
C29_Original ==
    \A u \in Units :
        status[u] = "Failed" =>
            /\ \A v \in Units : \A i \in DOMAIN wrote[v] : wrote[v][i] \in g
            /\ \A i \in 1..Len(all_years) :
                /\ (i < yi[u] /\ AggTriples(g, countries[u][1], all_years[i]) # {}) =>
                        CompleteNode(g, IdOf(countries[u][1], all_years[i]))
                /\ i >= yi[u] => AggTriples(g, countries[u][1], all_years[i]) = {}

\* C30 as stated: after any sequence of process_trade_measurement calls, every
\* trade measurement node has exactly one trade value, one period and one
\* direction.
C30_Original ==
    \A m \in {t[1] : t \in RecordTriplesOf(g)} :
        /\ Cardinality(Objects(g, m, tradeValue)) = 1
        /\ Cardinality(Objects(g, m, yearP)) = 1
        /\ Cardinality(Objects(g, m, flowType)) = 1

====
